---- MODULE Spec2Model ----
(***************************************************************************)
(* Library Management System: the catalog (Library), its FIFO borrow       *)
(* request queue (LinkedListQueue), the user-book interaction graph        *)
(* (Graph) and the Book / User records, as a state machine.                *)
(***************************************************************************)
EXTENDS Integers, Sequences, FiniteSets, TLC

VARIABLES books, users, borrow_requests, user_book_graph, file, call

vars == <<books, users, borrow_requests, user_book_graph, file, call>>

(* ------------------------------ bounds --------------------------------- *)

MaxCopies == 2
MaxHistory == 2
MaxQueue == 3
MaxPending == 1
MaxResults == 2
MaxBfsDepth == 3
MaxEnqueues == 4

(* ------------------------------ inputs --------------------------------- *)

BookIds == {"b1", "b2"}
UserIds == {"u1", "u2"}

\* lexicographic rank of the strings that get sorted (sorted() in to_dict)
StrRank(s) ==
    CASE s = "a" -> 0 - 1 [] s = "b" -> 0
      [] s = "b1" -> 1 [] s = "b2" -> 2
      [] s = "fiction" -> 3 [] s = "tech" -> 4
      [] OTHER -> 5

\* str.lower() on the titles and genres that occur
lower(s) ==
    CASE s = "A" -> "a" [] s = "B" -> "b" [] s = "Tech" -> "tech"
      [] OTHER -> s

\* str.strip().lower() on the interest strings that are entered
StripLower(s) ==
    CASE s = "Tech" -> "tech"
      [] s = " fiction " -> "fiction"
      [] s = " " -> ""
      [] OTHER -> s

(* ------------------------------- Book ---------------------------------- *)

\* Book.__init__ + LibraryItem.__post_init__ + Book.__post_init__
BookRaises(item_id, title, author, genre, total_copies, available_copies) ==
    \/ item_id = "" \/ title = "" \/ author = ""
    \/ total_copies < 0
    \/ genre = ""

Book(item_id, title, author, genre, total_copies, available_copies) ==
    [item_id |-> item_id, title |-> title, author |-> author, genre |-> genre,
     total_copies |-> total_copies,
     available_copies |->
        IF available_copies < 0 \/ available_copies > total_copies
        THEN total_copies ELSE available_copies,
     borrow_count |-> 0]

can_borrow(book) == book.available_copies > 0

borrow_one_raises(book) == book.available_copies <= 0

\* variant: the popularity counter is not advanced
borrow_one_nocount(book) ==
    [book EXCEPT !.available_copies = @ - 1]

borrow_one(book) ==
    [book EXCEPT !.available_copies = @ - 1, !.borrow_count = @ + 1]

return_one_raises(book) == book.available_copies >= book.total_copies

return_one(book) == [book EXCEPT !.available_copies = @ + 1]

(* ------------------------------- User ---------------------------------- *)

User(user_id, name, interests) ==
    [user_id |-> user_id, name |-> name,
     interests |-> {StripLower(s) : s \in {t \in interests : StripLower(t) # ""}},
     borrowed_books |-> {},
     history |-> <<>>]

\* variant: the history entry is not appended
User_borrow_nohistory(user, book_id) ==
    [user EXCEPT !.borrowed_books = @ \cup {book_id}]

User_borrow(user, book_id) ==
    [user EXCEPT !.borrowed_books = @ \cup {book_id},
                 !.history = Append(@, book_id)]

\* variant: the borrowed set keeps the id
User_return_book_keep(user, book_id) == user

User_return_book(user, book_id) ==
    [user EXCEPT !.borrowed_books = @ \ {book_id}]

(* -------------------------- LinkedListQueue ---------------------------- *)

\* the null reference; nodes live at addresses 1, 2, ...
None == 0

\* LinkedListQueue.__init__; node maps each live address to its _Node
LinkedListQueue == [_head |-> None, _tail |-> None, _size |-> 0, node |-> <<>>]

\* address of a freshly allocated _Node: the lowest one not in use
NewAddr(q) == CHOOSE a \in 1..(Cardinality(DOMAIN q.node) + 1) :
                 /\ a \notin DOMAIN q.node
                 /\ \A c \in 1..(a - 1) : c \in DOMAIN q.node

\* variant: the new node is linked in front of the head
enqueue_front(q, value) ==
    LET a == NewAddr(q)
        n == [value |-> value, next |-> q._head]
        heap == [x \in DOMAIN q.node \cup {a} |-> IF x = a THEN n ELSE q.node[x]]
    IN [_head |-> a, _tail |-> IF q._tail = None THEN a ELSE q._tail,
        _size |-> q._size + 1, node |-> heap]

enqueue(q, value) ==
    LET a == NewAddr(q)
        n == [value |-> value, next |-> None]
        heap == [x \in DOMAIN q.node \cup {a} |-> IF x = a THEN n ELSE q.node[x]]
    IN IF q._tail = None
       THEN [_head |-> a, _tail |-> a, _size |-> q._size + 1, node |-> heap]
       ELSE [_head |-> q._head, _tail |-> a, _size |-> q._size + 1,
             node |-> [heap EXCEPT ![q._tail].next = a]]

dequeue_raises(q) == q._head = None

\* variant: _size is not decremented
dequeue_keep_size(q) ==
    LET h == q._head
        nh == q.node[h].next
    IN [_head |-> nh,
        _tail |-> IF nh = None THEN None ELSE q._tail,
        _size |-> q._size,
        node |-> [x \in DOMAIN q.node \ {h} |-> q.node[x]]]

\* the queue after dequeue(); the dropped node is no longer referenced
dequeue(q) ==
    LET h == q._head
        nh == q.node[h].next
    IN [_head |-> nh,
        _tail |-> IF nh = None THEN None ELSE q._tail,
        _size |-> q._size - 1,
        node |-> [x \in DOMAIN q.node \ {h} |-> q.node[x]]]

\* the value dequeue() returns
dequeue_value(q) == q.node[q._head].value

peek_raises(q) == q._head = None

\* the value peek() returns; the queue is not written
peek(q) == q.node[q._head].value

queue_len(q) == q._size

\* variant: the queue object is truthy whatever it holds
queue_bool_object(q) == TRUE

queue_bool(q) == q._size > 0

(* ------------------------------- Graph --------------------------------- *)

Graph == <<>>

UserNode(user_id) == <<"user", user_id>>
BookNode(book_id) == <<"book", book_id>>

add_node(adj, n) ==
    IF n \in DOMAIN adj THEN adj
    ELSE [x \in DOMAIN adj \cup {n} |-> IF x = n THEN {} ELSE adj[x]]

\* variant: only the a -> b direction is recorded
add_edge_oneway(adj, a, b) ==
    IF a = b THEN adj
    ELSE LET g == add_node(add_node(adj, a), b)
         IN [g EXCEPT ![a] = @ \cup {b}]

\* variant: a == b is not tested
add_edge_loops(adj, a, b) ==
    LET g == add_node(add_node(adj, a), b)
    IN [g EXCEPT ![a] = @ \cup {b}, ![b] = @ \cup {a}]

add_edge(adj, a, b) ==
    IF a = b THEN adj
    ELSE LET g == add_node(add_node(adj, a), b)
         IN [g EXCEPT ![a] = @ \cup {b}, ![b] = @ \cup {a}]

neighbors(adj, n) == IF n \in DOMAIN adj THEN adj[n] ELSE {}

\* the orders in which a set can be iterated
Perms(S) ==
    {p \in [1..Cardinality(S) -> S] : \A i, j \in DOMAIN p : p[i] = p[j] => i = j}

\* the while loop of Graph.bfs; i is the 1-based position in the work list.
\* The neighbours not yet visited are appended in the order the set yields
\* them, which is not fixed: every order is a possible run.
RECURSIVE BfsLoop(_, _, _, _, _, _)
BfsLoop(adj, max_depth, visited, queue, order, i) ==
    IF i > Len(queue) THEN {order}
    ELSE LET node == queue[i][1]
             depth == queue[i][2]
             order2 == Append(order, queue[i])
         IN IF depth >= max_depth
            THEN BfsLoop(adj, max_depth, visited, queue, order2, i + 1)
            ELSE LET fresh == adj[node] \ visited
                 IN UNION {BfsLoop(adj, max_depth, visited \cup fresh,
                                   queue \o [j \in 1..Len(p) |-> <<p[j], depth + 1>>],
                                   order2, i + 1) : p \in Perms(fresh)}

\* variant: the depth limit is applied one level too late
bfs_deeper(adj, start, max_depth) ==
    IF start \notin DOMAIN adj THEN {<<>>}
    ELSE BfsLoop(adj, max_depth + 1, {start}, <<<<start, 0>>>>, <<>>, 1)

\* Graph.bfs: the set of lists the call can return
bfs(adj, start, max_depth) ==
    IF start \notin DOMAIN adj THEN {<<>>}
    ELSE BfsLoop(adj, max_depth, {start}, <<<<start, 0>>>>, <<>>, 1)

(* ------------------------------ Library -------------------------------- *)

\* Library.__init__
Library ==
    [books |-> <<>>, users |-> <<>>,
     borrow_requests |-> LinkedListQueue, user_book_graph |-> Graph]

\* dict.pop(key, None) / dict without one key
DictPop(d, k) == [x \in DOMAIN d \ {k} |-> d[x]]

\* d[k] = v
DictSet(d, k, v) == [x \in DOMAIN d \cup {k} |-> IF x = k THEN v ELSE d[x]]

\* variant: a book added again replaces the record
add_book_replace(self, book) ==
    [self EXCEPT
        !.books = DictSet(@, book.item_id, book),
        !.user_book_graph = add_node(@, BookNode(book.item_id))]

add_book(self, book) ==
    IF book.item_id \in DOMAIN self.books
    THEN [self EXCEPT
            !.books[book.item_id].total_copies = @ + book.total_copies,
            !.books[book.item_id].available_copies = @ + book.available_copies]
    ELSE [self EXCEPT
            !.books = DictSet(@, book.item_id, book),
            !.user_book_graph = add_node(@, BookNode(book.item_id))]

remove_book_ret(self, book_id) == book_id \in DOMAIN self.books

\* variant: the id is also taken out of every user's borrowed set
remove_book_cascade(self, book_id) ==
    [self EXCEPT
        !.books = DictPop(@, book_id),
        !.users = [u \in DOMAIN self.users |->
                     [self.users[u] EXCEPT !.borrowed_books = @ \ {book_id}]]]

remove_book(self, book_id) == [self EXCEPT !.books = DictPop(@, book_id)]

\* setattr(book, key, value): the property available_copies has no setter
setattr_raises(key) == key = "available_copies"

\* hasattr(book, key) and setattr(book, key, value) on the dataclass fields
Book_setattr(book, key, value) ==
    CASE key = "title" -> [book EXCEPT !.title = value]
      [] key = "author" -> [book EXCEPT !.author = value]
      [] key = "genre" -> [book EXCEPT !.genre = value]
      [] key = "total_copies" -> [book EXCEPT !.total_copies = value]
      [] key = "_available_copies" -> [book EXCEPT !.available_copies = value]
      [] key = "borrow_count" -> [book EXCEPT !.borrow_count = value]
      [] OTHER -> book

\* the loop of update_book over updates.items(), up to the first raise
RECURSIVE ApplyUpdates(_, _)
ApplyUpdates(book, updates) ==
    IF updates = <<>> THEN book
    ELSE IF setattr_raises(Head(updates)[1]) THEN book
    ELSE ApplyUpdates(Book_setattr(book, Head(updates)[1], Head(updates)[2]),
                      Tail(updates))

\* update_book: the returned flag, or "AttributeError" when setattr raises
update_book_ret(self, book_id, updates) ==
    IF book_id \notin DOMAIN self.books THEN "False"
    ELSE IF \E i \in DOMAIN updates : setattr_raises(updates[i][1])
    THEN "AttributeError"
    ELSE "True"

\* update_book: updates is the sequence of (key, value) pairs of **updates
update_book(self, book_id, updates) ==
    IF book_id \notin DOMAIN self.books THEN self
    ELSE [self EXCEPT !.books[book_id] = ApplyUpdates(@, updates)]

add_user(self, user) ==
    IF user.user_id \in DOMAIN self.users
    THEN self
    ELSE [self EXCEPT
            !.users = DictSet(@, user.user_id, user),
            !.user_book_graph = add_node(@, UserNode(user.user_id))]

enqueue_borrow_request(self, user_id, book_id) ==
    [self EXCEPT !.borrow_requests = enqueue(@, <<user_id, book_id>>)]

\* variant: availability is not checked
borrow_book_ret_unchecked(self, user_id, book_id) ==
    IF user_id \notin DOMAIN self.users \/ book_id \notin DOMAIN self.books
    THEN "False"
    ELSE "True"

\* borrow_book: the returned flag, or "ValueError" when Book.borrow_one raises
borrow_book_ret(self, user_id, book_id) ==
    IF user_id \notin DOMAIN self.users \/ book_id \notin DOMAIN self.books
    THEN "False"
    ELSE IF ~can_borrow(self.books[book_id])
    THEN "False"
    ELSE IF borrow_one_raises(self.books[book_id])
    THEN "ValueError"
    ELSE "True"

\* variant: the user record is written before the availability check
borrow_book_early_record(self, user_id, book_id) ==
    IF user_id \notin DOMAIN self.users \/ book_id \notin DOMAIN self.books
    THEN self
    ELSE IF borrow_book_ret(self, user_id, book_id) = "True"
    THEN [self EXCEPT
            !.books[book_id] = borrow_one(@),
            !.users[user_id] = User_borrow(@, book_id),
            !.user_book_graph = add_edge(@, UserNode(user_id), BookNode(book_id))]
    ELSE [self EXCEPT !.users[user_id] = User_borrow(@, book_id)]

\* borrow_book: the catalog after the call (borrow_one raises before any write)
borrow_book(self, user_id, book_id) ==
    IF borrow_book_ret(self, user_id, book_id) = "True"
    THEN [self EXCEPT
            !.books[book_id] = borrow_one(@),
            !.users[user_id] = User_borrow(@, book_id),
            !.user_book_graph = add_edge(@, UserNode(user_id), BookNode(book_id))]
    ELSE self

\* variant: the borrowed set is not consulted
return_book_ret_unchecked(self, user_id, book_id) ==
    IF user_id \notin DOMAIN self.users \/ book_id \notin DOMAIN self.books
    THEN "False"
    ELSE IF return_one_raises(self.books[book_id])
    THEN "ValueError"
    ELSE "True"

\* return_book: the returned flag, or "ValueError" when Book.return_one raises
return_book_ret(self, user_id, book_id) ==
    IF user_id \notin DOMAIN self.users \/ book_id \notin DOMAIN self.books
    THEN "False"
    ELSE IF book_id \notin self.users[user_id].borrowed_books
    THEN "False"
    ELSE IF return_one_raises(self.books[book_id])
    THEN "ValueError"
    ELSE "True"

\* variant: a successful return hands the copy to the next queued request
return_book_then_process(self, user_id, book_id) ==
    IF return_book_ret(self, user_id, book_id) = "True"
    THEN LET back == [self EXCEPT
                        !.books[book_id] = return_one(@),
                        !.users[user_id] = User_return_book(@, book_id)]
         IN IF back.borrow_requests._head = None THEN back
            ELSE [back EXCEPT !.borrow_requests = dequeue(@)]
    ELSE self

\* return_book: the catalog after the call (return_one raises before any write)
return_book(self, user_id, book_id) ==
    IF return_book_ret(self, user_id, book_id) = "True"
    THEN [self EXCEPT
            !.books[book_id] = return_one(@),
            !.users[user_id] = User_return_book(@, book_id)]
    ELSE self

process_next_borrow_ret(self) ==
    IF ~queue_bool(self.borrow_requests)
    THEN "False"
    ELSE IF dequeue_raises(self.borrow_requests)
    THEN "IndexError"
    ELSE LET req == dequeue_value(self.borrow_requests)
         IN borrow_book_ret(self, req[1], req[2])

\* process_next_borrow: the request handed to borrow_book (none: <<"-", "-">>)
process_next_borrow_req(self) ==
    IF ~queue_bool(self.borrow_requests) \/ dequeue_raises(self.borrow_requests)
    THEN <<"-", "-">>
    ELSE dequeue_value(self.borrow_requests)

\* variant: a request whose borrow fails goes back to the end of the queue
process_next_borrow_requeue(self) ==
    IF ~queue_bool(self.borrow_requests) \/ dequeue_raises(self.borrow_requests)
    THEN self
    ELSE LET req == dequeue_value(self.borrow_requests)
             popped == [self EXCEPT !.borrow_requests = dequeue(@)]
         IN IF borrow_book_ret(popped, req[1], req[2]) = "True"
            THEN borrow_book(popped, req[1], req[2])
            ELSE enqueue_borrow_request(popped, req[1], req[2])

process_next_borrow(self) ==
    IF ~queue_bool(self.borrow_requests) \/ dequeue_raises(self.borrow_requests)
    THEN self
    ELSE LET req == dequeue_value(self.borrow_requests)
             popped == [self EXCEPT !.borrow_requests = dequeue(@)]
         IN borrow_book(popped, req[1], req[2])

\* Library._borrow_requests_as_list: walk the nodes from _head
RECURSIVE WalkFrom(_, _)
WalkFrom(q, a) ==
    IF a = None THEN <<>>
    ELSE <<q.node[a].value>> \o WalkFrom(q, q.node[a].next)

_borrow_requests_as_list(self) ==
    WalkFrom(self.borrow_requests, self.borrow_requests._head)

(* ---------------------------- persistence ------------------------------ *)

\* sorted(set): ascending by string order
RECURSIVE Sorted(_)
Sorted(S) ==
    IF S = {} THEN <<>>
    ELSE LET m == CHOOSE x \in S : \A y \in S : StrRank(x) <= StrRank(y)
         IN <<m>> \o Sorted(S \ {m})

\* set(list)
ToSet(seq) == {seq[i] : i \in DOMAIN seq}

Book_to_dict(book) ==
    [id |-> book.item_id, title |-> book.title, author |-> book.author,
     genre |-> book.genre, total_copies |-> book.total_copies,
     available_copies |-> book.available_copies,
     borrow_count |-> book.borrow_count]

\* variant: the history is written through sorted(), like the two sets
User_to_dict_sorted_history(user) ==
    [id |-> user.user_id, name |-> user.name,
     interests |-> Sorted(user.interests),
     borrowed_books |-> Sorted(user.borrowed_books),
     history |-> Sorted(ToSet(user.history))]

User_to_dict(user) ==
    [id |-> user.user_id, name |-> user.name,
     interests |-> Sorted(user.interests),
     borrowed_books |-> Sorted(user.borrowed_books),
     history |-> user.history]

_snapshot(self) ==
    [version |-> 1,
     books |-> [bid \in DOMAIN self.books |-> Book_to_dict(self.books[bid])],
     users |-> [uid \in DOMAIN self.users |-> User_to_dict(self.users[uid])],
     borrow_requests |-> _borrow_requests_as_list(self)]

\* load_from_file, "Rebuild books": a record whose Book(...) raises is skipped
RECURSIVE LoadBooks(_, _, _)
LoadBooks(self, books_data, todo) ==
    IF todo = {} THEN self
    ELSE LET bid == CHOOSE x \in todo : TRUE
             bdict == books_data[bid]
             next ==
               IF BookRaises(bid, bdict.title, bdict.author, bdict.genre,
                             bdict.total_copies, bdict.available_copies)
               THEN self
               ELSE add_book(self,
                      [Book(bid, bdict.title, bdict.author, bdict.genre,
                            bdict.total_copies, bdict.available_copies)
                         EXCEPT !.borrow_count = bdict.borrow_count])
         IN LoadBooks(next, books_data, todo \ {bid})

\* User.__post_init__ raising
UserRaises(user_id, name) == user_id = "" \/ name = ""

\* load_from_file, "Rebuild users"
RECURSIVE LoadUsers(_, _, _)
LoadUsers(self, users_data, todo) ==
    IF todo = {} THEN self
    ELSE LET uid == CHOOSE x \in todo : TRUE
             udict == users_data[uid]
             next ==
               IF UserRaises(uid, udict.name)
               THEN self
               ELSE add_user(self,
                      [User(uid, udict.name, ToSet(udict.interests))
                         EXCEPT !.borrowed_books = ToSet(udict.borrowed_books),
                                !.history = udict.history])
         IN LoadUsers(next, users_data, todo \ {uid})

\* load_from_file, "Rebuild interaction graph (from user history)"
RECURSIVE LoadEdges(_, _)
LoadEdges(self, todo) ==
    IF todo = {} THEN self
    ELSE LET p == CHOOSE x \in todo : TRUE
             next ==
               IF p[2] \in DOMAIN self.books
               THEN [self EXCEPT !.user_book_graph =
                        add_edge(@, UserNode(p[1]), BookNode(p[2]))]
               ELSE self
         IN LoadEdges(next, todo \ {p})

\* load_from_file, "Rebuild borrow request queue"
RECURSIVE LoadRequests(_, _)
LoadRequests(self, entries) ==
    IF entries = <<>> THEN self
    ELSE LoadRequests(
            enqueue_borrow_request(self, Head(entries)[1], Head(entries)[2]),
            Tail(entries))

\* what the file holds: <<>> when absent, else <<doc>> with doc the snapshot
\* record written by save_to_file, [text |-> ...] for text that is not JSON,
\* or a JSON document with a list [array |-> ...] where an object belongs
json_load_raises(doc) == "text" \in DOMAIN doc

\* data.get / books_data.items() / users_data.items() on a list raises
IsArray(v) == "array" \in DOMAIN v

\* load_from_file: the returned flag, or "AttributeError" when it raises
load_from_file_ret(f) ==
    IF f = <<>> THEN "False"
    ELSE IF json_load_raises(f[1]) THEN "False"
    ELSE IF IsArray(f[1]) THEN "AttributeError"
    ELSE IF IsArray(f[1].books) \/ IsArray(f[1].users) THEN "AttributeError"
    ELSE "True"

\* load_from_file: the catalog after the call; the state is reset before
\* the document is looked into, and a raise leaves what was rebuilt so far
load_from_file(self, f) ==
    IF f = <<>> THEN self
    ELSE IF json_load_raises(f[1]) THEN self
    ELSE IF IsArray(f[1]) THEN Library
    ELSE IF IsArray(f[1].books) THEN Library
    ELSE LET data == f[1]
             s1 == LoadBooks(Library, data.books, DOMAIN data.books)
         IN IF IsArray(data.users) THEN s1
            ELSE LET s2 == LoadUsers(s1, data.users, DOMAIN data.users)
                     s3 == LoadEdges(s2,
                             UNION {{<<uid, s2.users[uid].history[i]>> :
                                       i \in DOMAIN s2.users[uid].history} :
                                    uid \in DOMAIN s2.users})
                 IN LoadRequests(s3, data.borrow_requests)

(* ------------------------------ ranking -------------------------------- *)

\* tuple comparison of sort keys (tuples of integers of one length)
RECURSIVE KeyLess(_, _)
KeyLess(a, b) ==
    IF a = <<>> THEN FALSE
    ELSE IF Head(a) # Head(b) THEN Head(a) < Head(b)
    ELSE KeyLess(Tail(a), Tail(b))

\* one item put into a list sorted by key, behind the items that do not
\* come after it (sorted() is stable)
RECURSIVE InsertByKey(_, _)
InsertByKey(sortedItems, item) ==
    IF sortedItems = <<>> THEN <<item>>
    ELSE IF KeyLess(item.key, Head(sortedItems).key)
    THEN <<item>> \o sortedItems
    ELSE <<Head(sortedItems)>> \o InsertByKey(Tail(sortedItems), item)

\* sorted(items, key=...): items are [key |-> ..., value |-> ...]
RECURSIVE SortedByKey(_)
SortedByKey(items) ==
    IF items = <<>> THEN <<>>
    ELSE InsertByKey(SortedByKey(SubSeq(items, 1, Len(items) - 1)),
                     items[Len(items)])

\* seq[:k]
SliceTo(seq, k) ==
    LET n == Len(seq)
        end == IF k >= 0 THEN (IF k < n THEN k ELSE n)
               ELSE (IF n + k > 0 THEN n + k ELSE 0)
    IN SubSeq(seq, 1, end)

\* variant: the least borrowed come first
top_k_books_ascending(self, k, ids) ==
    IF k <= 0 THEN <<>>
    ELSE LET items == [i \in DOMAIN ids |->
                         [key |-> <<self.books[ids[i]].borrow_count>>,
                          value |-> self.books[ids[i]]]]
             ranked == SortedByKey(items)
         IN [i \in DOMAIN SliceTo(ranked, k) |-> ranked[i].value]

\* Library.top_k_books; ids is the order in which the dict yields the books.
\* heapq.nlargest(k, it, key) is sorted(it, key=key, reverse=True)[:k].
top_k_books(self, k, ids) ==
    IF k <= 0 THEN <<>>
    ELSE LET items == [i \in DOMAIN ids |->
                         [key |-> <<0 - self.books[ids[i]].borrow_count>>,
                          value |-> self.books[ids[i]]]]
             ranked == SortedByKey(items)
         IN [i \in DOMAIN SliceTo(ranked, k) |-> ranked[i].value]

(* ----------------------- RecommendationEngine -------------------------- *)

\* scores are counted in sixtieths, so that 1/(1+depth) for depth 0..3,
\* 0.5, 0.7 and borrow_count/10 are whole numbers
ScoreUnit == 60

\* max_depth of the traversal
RecommendDepth == 3

\* min(book.borrow_count / 10.0, 1.0)
PopularityBonus(book) ==
    IF 6 * book.borrow_count < ScoreUnit THEN 6 * book.borrow_count ELSE ScoreUnit

\* the score of a book found at the given depth of the traversal
GraphScore(user, book, depth) ==
    (ScoreUnit \div (1 + depth))
    + (IF lower(book.genre) \in user.interests THEN 30 ELSE 0)
    + PopularityBonus(book)

\* variant: the fallback uses the interest bonus of the graph path
FallbackScore_half(user, book) ==
    (IF lower(book.genre) \in user.interests THEN 30 ELSE 0)
    + PopularityBonus(book)

\* the score of a book on the fallback path
FallbackScore(user, book) ==
    (IF lower(book.genre) \in user.interests THEN 42 ELSE 0)
    + PopularityBonus(book)

\* the loop over the traversal: candidate_scores as (book id, score) pairs
\* in the order they are entered
RECURSIVE GraphCandidates(_, _, _)
GraphCandidates(self, user_id, traversal) ==
    IF traversal = <<>> THEN <<>>
    ELSE LET node == Head(traversal)[1]
             depth == Head(traversal)[2]
             rest == GraphCandidates(self, user_id, Tail(traversal))
             user == self.users[user_id]
         IN IF node[1] = "book" /\ node # BookNode(user_id)
            THEN IF node[2] \in user.borrowed_books THEN rest
                 ELSE IF node[2] \notin DOMAIN self.books THEN rest
                 ELSE <<<<node[2], GraphScore(user, self.books[node[2]], depth)>>>>
                      \o rest
            ELSE rest

\* the fallback loop over the books (ids: the order the dict yields them)
RECURSIVE FallbackCandidates(_, _, _)
FallbackCandidates(self, user_id, ids) ==
    IF ids = <<>> THEN <<>>
    ELSE LET b == self.books[Head(ids)]
             rest == FallbackCandidates(self, user_id, Tail(ids))
             user == self.users[user_id]
         IN IF b.item_id \in user.borrowed_books THEN rest
            ELSE IF FallbackScore(user, b) > 0
            THEN <<<<b.item_id, FallbackScore(user, b)>>>> \o rest
            ELSE rest

\* candidate_scores when the ranking starts
Candidates(self, user_id, traversal) ==
    LET found == GraphCandidates(self, user_id, traversal)
    IN IF found # <<>> THEN found
       ELSE FallbackCandidates(self, user_id, Sorted(DOMAIN self.books))

\* variant: the score is not negated, so the lowest score comes first
RankKey_ascending(book, score) ==
    <<score, 0 - book.borrow_count, StrRank(lower(book.title))>>

\* the sort key of a (book, score) pair
RankKey(book, score) ==
    <<0 - score, 0 - book.borrow_count, StrRank(lower(book.title))>>

\* the sorted(...) of candidate_scores as (book, score) pairs
Ranked(self, cands) ==
    LET items == [i \in DOMAIN cands |->
                    [key |-> RankKey(self.books[cands[i][1]], cands[i][2]),
                     value |-> <<self.books[cands[i][1]], cands[i][2]>>]]
        ranked == SortedByKey(items)
    IN [i \in DOMAIN ranked |-> ranked[i].value]

\* self.library.books[bid] in the ranking raises KeyError for a candidate
\* id that is not in the book map
recommend_for_user_raises(self, user_id, traversal) ==
    /\ user_id \in DOMAIN self.users
    /\ LET cands == Candidates(self, user_id, traversal)
       IN \E i \in DOMAIN cands : cands[i][1] \notin DOMAIN self.books

\* variant: an unknown user is served as a guest without interests
recommend_for_user_anyone(self, user_id, k, traversal) ==
    LET guest == IF user_id \in DOMAIN self.users THEN self
                 ELSE [self EXCEPT !.users =
                          DictSet(@, user_id, User(user_id, "guest", {}))]
    IN SliceTo(Ranked(guest, Candidates(guest, user_id, traversal)), k)

\* RecommendationEngine.recommend_for_user; traversal is what bfs returned
recommend_for_user(self, user_id, k, traversal) ==
    IF user_id \notin DOMAIN self.users THEN <<>>
    ELSE SliceTo(Ranked(self, Candidates(self, user_id, traversal)), k)

\* variant: the start node is registered in the graph before the look-up
recommend_for_user_library_registers(self, user_id, k) ==
    [self EXCEPT !.user_book_graph = add_node(@, UserNode(user_id))]

\* self.library after recommend_for_user: users.get, bfs, books.get,
\* books.values() and books[bid] are reads, and nothing is assigned
recommend_for_user_library(self, user_id, k) == self

(* ------------------------------ actions -------------------------------- *)

\* the catalog held in the variables
Lib ==
    [books |-> books, users |-> users,
     borrow_requests |-> borrow_requests, user_book_graph |-> user_book_graph]

Becomes(self) ==
    /\ books' = self.books
    /\ users' = self.users
    /\ borrow_requests' = self.borrow_requests
    /\ user_book_graph' = self.user_book_graph

\* the call just made: operation, arguments ("-" when it has none), outcome
Call(op, user_id, book_id, ret) ==
    call' = [op |-> op, user_id |-> user_id, book_id |-> book_id, ret |-> ret]

\* books and users a caller constructs (tests/test_core.py setUp)
TitleOf(book_id) == IF book_id = "b1" THEN "A" ELSE "B"
GenreOf(book_id) == IF book_id = "b1" THEN "tech" ELSE "fiction"

\* Book(...) objects with the given ids and total_copies
BooksOf(ids, totals) ==
    {Book(bid, TitleOf(bid), "Auth", GenreOf(bid), t, a) :
        bid \in ids, t \in totals, a \in 0..MaxCopies}

NewUsers ==
    {User("u1", "User1", {"Tech"}), User("u2", "User2", {" fiction ", " "})}

\* the book objects that get added: b1 is stocked, b2 never is
CatalogBooks == BooksOf({"b1"}, 0..MaxCopies)

\* the requests that get queued: both users for b1, and one for the unknown b2
WaitlistRequests == {<<"u1", "b1">>, <<"u2", "b1">>, <<"u1", "b2">>}

\* the inputs of the persistence specification: one book id, one user id
SavedBookIds == {"b1"}
SavedUserIds == {"u1"}
SavedBooks == BooksOf(SavedBookIds, 0..MaxCopies)
SavedUsers == {u \in NewUsers : u.user_id \in SavedUserIds}

AddBook(book) ==
    /\ book.item_id \in DOMAIN books =>
          /\ books[book.item_id].total_copies + book.total_copies <= MaxCopies
          /\ books[book.item_id].available_copies + book.available_copies
                <= MaxCopies
    /\ Becomes(add_book(Lib, book))
    /\ Call("add_book", "-", book.item_id, "None")
    /\ UNCHANGED file

RemoveBook(book_id) ==
    /\ Becomes(remove_book(Lib, book_id))
    /\ Call("remove_book", "-", book_id,
            IF remove_book_ret(Lib, book_id) THEN "True" ELSE "False")
    /\ UNCHANGED file

\* the keyword arguments update_book gets: none, one field, an unknown
\* name, the read-only property, and a restock of both copy counters
UpdateInputs ==
    {<<>>, <<<<"isbn", "x">>>>, <<<<"genre", "fiction">>>>,
     <<<<"available_copies", 0>>>>}
    \cup {<<<<"total_copies", t>>>> : t \in 0..MaxCopies}
    \cup {<<<<"total_copies", t>>, <<"_available_copies", t>>>> : t \in 1..MaxCopies}

UpdateBook(book_id, updates) ==
    /\ Becomes(update_book(Lib, book_id, updates))
    /\ Call("update_book", "-", book_id, update_book_ret(Lib, book_id, updates))
    /\ UNCHANGED file

AddUser(user) ==
    /\ Becomes(add_user(Lib, user))
    /\ Call("add_user", user.user_id, "-", "None")
    /\ UNCHANGED file

EnqueueBorrowRequest(user_id, book_id) ==
    /\ Becomes(enqueue_borrow_request(Lib, user_id, book_id))
    /\ Call("enqueue_borrow_request", user_id, book_id, "None")
    /\ UNCHANGED file

BorrowBook(user_id, book_id) ==
    /\ borrow_book_ret(Lib, user_id, book_id) = "True" =>
          Len(users[user_id].history) < MaxHistory
    /\ Becomes(borrow_book(Lib, user_id, book_id))
    /\ Call("borrow_book", user_id, book_id, borrow_book_ret(Lib, user_id, book_id))
    /\ UNCHANGED file

ReturnBook(user_id, book_id) ==
    /\ Becomes(return_book(Lib, user_id, book_id))
    /\ Call("return_book", user_id, book_id, return_book_ret(Lib, user_id, book_id))
    /\ UNCHANGED file

ProcessNextBorrow ==
    /\ process_next_borrow_ret(Lib) = "True" =>
          Len(users[dequeue_value(borrow_requests)[1]].history) < MaxHistory
    /\ Becomes(process_next_borrow(Lib))
    /\ LET req == process_next_borrow_req(Lib)
       IN Call("process_next_borrow", req[1], req[2], process_next_borrow_ret(Lib))
    /\ UNCHANGED file

SaveToFile ==
    /\ file' = <<_snapshot(Lib)>>
    /\ Call("save_to_file", "-", "-", "None")
    /\ UNCHANGED <<books, users, borrow_requests, user_book_graph>>

LoadFromFile ==
    /\ Becomes(load_from_file(Lib, file))
    /\ Call("load_from_file", "-", "-", load_from_file_ret(file))
    /\ UNCHANGED file

\* the values of k a caller passes, negative ones included
Ks == (0 - 1)..MaxResults

\* RecommendationEngine.recommend_for_user: the result, or the error raised
Recommend(user_id, k) ==
    /\ \E traversal \in bfs(user_book_graph, UserNode(user_id), RecommendDepth) :
          call' = [op |-> "recommend_for_user", user_id |-> user_id,
                   book_id |-> "-", k |-> k,
                   error |-> IF recommend_for_user_raises(Lib, user_id, traversal)
                             THEN "KeyError" ELSE "-",
                   ret |-> IF recommend_for_user_raises(Lib, user_id, traversal)
                           THEN <<>>
                           ELSE recommend_for_user(Lib, user_id, k, traversal)]
    /\ Becomes(recommend_for_user_library(Lib, user_id, k))
    /\ UNCHANGED file

\* Library.top_k_books: a query
TopKBooks(k) ==
    /\ \E ids \in Perms(DOMAIN books) :
          call' = [op |-> "top_k_books", user_id |-> "-", book_id |-> "-",
                   k |-> k, ret |-> top_k_books(Lib, k, ids)]
    /\ UNCHANGED <<books, users, borrow_requests, user_book_graph, file>>

\* Graph.add_node / Graph.add_edge / Graph.bfs called on the graph itself
GraphAddNode(n) ==
    /\ user_book_graph' = add_node(user_book_graph, n)
    /\ call' = [op |-> "add_node", user_id |-> "-", book_id |-> "-", ret |-> "None"]
    /\ UNCHANGED <<books, users, borrow_requests, file>>

GraphAddEdge(a, b) ==
    /\ user_book_graph' = add_edge(user_book_graph, a, b)
    /\ call' = [op |-> "add_edge", user_id |-> "-", book_id |-> "-", ret |-> "None"]
    /\ UNCHANGED <<books, users, borrow_requests, file>>

Bfs(start, max_depth) ==
    /\ \E order \in bfs(user_book_graph, start, max_depth) :
          call' = [op |-> "bfs", user_id |-> "-", book_id |-> "-",
                   start |-> start, max_depth |-> max_depth, ret |-> order]
    /\ UNCHANGED <<books, users, borrow_requests, user_book_graph, file>>

\* LinkedListQueue called on its own. The record of the call also keeps, as
\* history, the items a FIFO sequence holds after it (fifo) and the number of
\* enqueue calls and of dequeue calls that returned an item so far.
QueueCall(op, ret, error, fifo, enqueues, dequeues) ==
    call' = [op |-> op, user_id |-> "-", book_id |-> "-", ret |-> ret,
             error |-> error, fifo |-> fifo,
             enqueues |-> enqueues, dequeues |-> dequeues]

QueueEnqueue(value) ==
    /\ borrow_requests' = enqueue(borrow_requests, value)
    /\ QueueCall("enqueue", <<>>, "-", Append(call.fifo, value),
                 call.enqueues + 1, call.dequeues)
    /\ UNCHANGED <<books, users, user_book_graph, file>>

\* dequeue(): the item in ret, or IndexError and the queue as it was
QueueDequeue ==
    /\ borrow_requests' = IF dequeue_raises(borrow_requests) THEN borrow_requests
                          ELSE dequeue(borrow_requests)
    /\ QueueCall("dequeue",
                 IF dequeue_raises(borrow_requests) THEN <<>>
                 ELSE <<dequeue_value(borrow_requests)>>,
                 IF dequeue_raises(borrow_requests) THEN "IndexError" ELSE "-",
                 IF call.fifo = <<>> THEN <<>> ELSE Tail(call.fifo),
                 call.enqueues,
                 IF dequeue_raises(borrow_requests) THEN call.dequeues
                 ELSE call.dequeues + 1)
    /\ UNCHANGED <<books, users, user_book_graph, file>>

QueuePeek ==
    /\ QueueCall("peek",
                 IF peek_raises(borrow_requests) THEN <<>>
                 ELSE <<peek(borrow_requests)>>,
                 IF peek_raises(borrow_requests) THEN "IndexError" ELSE "-",
                 call.fifo, call.enqueues, call.dequeues)
    /\ UNCHANGED <<books, users, borrow_requests, user_book_graph, file>>

\* len(queue)
QueueLen ==
    /\ QueueCall("len", <<queue_len(borrow_requests)>>, "-",
                 call.fifo, call.enqueues, call.dequeues)
    /\ UNCHANGED <<books, users, borrow_requests, user_book_graph, file>>

\* the head-to-tail walk of Library._borrow_requests_as_list
QueueAsList ==
    /\ QueueCall("as_list", _borrow_requests_as_list(Lib), "-",
                 call.fifo, call.enqueues, call.dequeues)
    /\ UNCHANGED <<books, users, borrow_requests, user_book_graph, file>>

(* --------------------------- specifications ---------------------------- *)

NoCall == [op |-> "-", user_id |-> "-", book_id |-> "-", ret |-> "None"]

\* a catalog built by add_book / add_user calls on a new Library
RECURSIVE AddBooks(_, _)
AddBooks(self, bs) ==
    IF bs = {} THEN self
    ELSE LET b == CHOOSE x \in bs : TRUE
         IN AddBooks(add_book(self, b), bs \ {b})

RECURSIVE AddUsers(_, _)
AddUsers(self, us) ==
    IF us = {} THEN self
    ELSE LET u == CHOOSE x \in us : TRUE
         IN AddUsers(add_user(self, u), us \ {u})

\* sets of new books with pairwise distinct ids
Shelves ==
    {bs \in SUBSET CatalogBooks : \A x, y \in bs : x.item_id = y.item_id => x = y}

\* the empty catalog (Library.__init__), no file saved yet
Init ==
    /\ books = Library.books
    /\ users = Library.users
    /\ borrow_requests = Library.borrow_requests
    /\ user_book_graph = Library.user_book_graph
    /\ file = <<>>
    /\ call = NoCall

\* any catalog built from valid books and users (b1 with any copy counts, or
\* no book; any of the users) in which nothing was borrowed yet
InitBorrow ==
    \E bs \in Shelves, us \in SUBSET NewUsers :
        LET self == AddUsers(AddBooks(Library, bs), us)
        IN /\ books = self.books
           /\ users = self.users
           /\ borrow_requests = self.borrow_requests
           /\ user_book_graph = self.user_book_graph
           /\ file = <<>>
           /\ call = NoCall

\* borrow / return on such a catalog, with a short waitlist; b2 is an unknown id
NextBorrow ==
    \/ \E u \in UserIds, b \in BookIds : BorrowBook(u, b)
    \/ \E u \in UserIds, b \in BookIds : ReturnBook(u, b)
    \/ \E u \in UserIds, b \in BookIds :
          queue_len(borrow_requests) < MaxPending /\ EnqueueBorrowRequest(u, b)
    \/ ProcessNextBorrow

SpecBorrow == InitBorrow /\ [][NextBorrow]_vars

\* book b1 with a single copy and the users u1, u2; b2 is not in the catalog
InitWaitlist ==
    LET self == AddUsers(AddBooks(Library,
                    {Book("b1", TitleOf("b1"), "Auth", GenreOf("b1"), 1, 1)}),
                    NewUsers)
    IN /\ books = self.books
       /\ users = self.users
       /\ borrow_requests = self.borrow_requests
       /\ user_book_graph = self.user_book_graph
       /\ file = <<>>
       /\ call = NoCall

\* the waitlist at its full length over that catalog
NextWaitlist ==
    \/ \E u \in UserIds : BorrowBook(u, "b1")
    \/ \E u \in UserIds : ReturnBook(u, "b1")
    \/ \E r \in WaitlistRequests :
          queue_len(borrow_requests) < MaxQueue /\ EnqueueBorrowRequest(r[1], r[2])
    \/ ProcessNextBorrow

SpecWaitlist == InitWaitlist /\ [][NextWaitlist]_vars

\* every catalog operation, from the empty catalog
NextCatalog ==
    \/ \E book \in CatalogBooks : AddBook(book)
    \/ \E b \in BookIds : RemoveBook(b)
    \/ \E user \in NewUsers : AddUser(user)
    \/ \E u \in UserIds, b \in BookIds : BorrowBook(u, b)
    \/ \E u \in UserIds, b \in BookIds : ReturnBook(u, b)
    \/ \E u \in UserIds, b \in BookIds :
          queue_len(borrow_requests) < MaxPending /\ EnqueueBorrowRequest(u, b)
    \/ ProcessNextBorrow

SpecCatalog == Init /\ [][NextCatalog]_vars

\* the catalog of one title and one user under every mutation of the book
\* store, update_book included
NextUpdate ==
    \/ \E book \in SavedBooks : AddBook(book)
    \/ \E b \in BookIds : RemoveBook(b)
    \/ \E b \in BookIds, upd \in UpdateInputs : UpdateBook(b, upd)
    \/ \E user \in SavedUsers : AddUser(user)
    \/ \E u \in SavedUserIds, b \in BookIds : BorrowBook(u, b)
    \/ \E u \in SavedUserIds, b \in BookIds : ReturnBook(u, b)
    \/ \E u \in SavedUserIds, b \in SavedBookIds :
          queue_len(borrow_requests) < MaxPending /\ EnqueueBorrowRequest(u, b)
    \/ ProcessNextBorrow

SpecUpdate == Init /\ [][NextUpdate]_vars

\* the books and requests of the round trip: one copy of each title, and a
\* waitlist of distinct requests (u2 is not registered)
RoundTripBooks ==
    {Book(bid, TitleOf(bid), "Auth", GenreOf(bid), 1, 1) : bid \in BookIds}
RoundTripRequests == {<<"u2", "b1">>, <<"u1", "b2">>}

\* a catalog with one copy of b1 and no user yet
InitRoundTrip ==
    LET self == AddBooks(Library, {b \in RoundTripBooks : b.item_id = "b1"})
    IN /\ books = self.books
       /\ users = self.users
       /\ borrow_requests = self.borrow_requests
       /\ user_book_graph = self.user_book_graph
       /\ file = <<>>
       /\ call = NoCall

\* the operations that build a catalog, with save_to_file / load_from_file
NextRoundTrip ==
    \/ \E book \in RoundTripBooks : book.item_id = "b2" /\ AddBook(book)
    \/ \E user \in SavedUsers : AddUser(user)
    \/ \E u \in SavedUserIds, b \in BookIds : BorrowBook(u, b)
    \/ \E u \in SavedUserIds, b \in BookIds : ReturnBook(u, b)
    \/ \E r \in RoundTripRequests :
          queue_len(borrow_requests) <= MaxPending /\ EnqueueBorrowRequest(r[1], r[2])
    \/ SaveToFile
    \/ LoadFromFile

SpecRoundTrip == InitRoundTrip /\ [][NextRoundTrip]_vars

\* the catalog the recommendations are asked of: b1 and b2 with one copy
\* each, new or already popular, a user u1 and a user without interests
\* whose id is also the id of a book; u2 is not registered
Popularity == {0, 10}
QueryUserIds == {"u1", "b1"}
QueryUsers == {User("u1", "User1", {"Tech"}), User("b1", "User2", {" "})}

\* who borrows what: u1 reads b1, the other user reads both
QueryLoans == {<<"u1", "b1">>, <<"b1", "b1">>, <<"b1", "b2">>}

WithBorrowCount(book, n) == [book EXCEPT !.borrow_count = n]

InitQuery ==
    \E n1, n2 \in Popularity :
        LET b1 == WithBorrowCount(Book("b1", TitleOf("b1"), "Auth", GenreOf("b1"), 1, 1), n1)
            b2 == WithBorrowCount(Book("b2", TitleOf("b2"), "Auth", GenreOf("b2"), 1, 1), n2)
            self == AddUsers(AddBooks(Library, {b1, b2}), QueryUsers)
        IN /\ books = self.books
           /\ users = self.users
           /\ borrow_requests = self.borrow_requests
           /\ user_book_graph = self.user_book_graph
           /\ file = <<>>
           /\ call = NoCall

\* loans, returns and removals, and the two ranking queries
NextQuery ==
    \/ \E loan \in QueryLoans : BorrowBook(loan[1], loan[2])
    \/ \E loan \in QueryLoans : ReturnBook(loan[1], loan[2])
    \/ \E b \in BookIds : RemoveBook(b)
    \/ \E u \in QueryUserIds \cup {"u2"}, k \in Ks : Recommend(u, k)
    \/ \E k \in Ks : TopKBooks(k)

SpecQuery == InitQuery /\ [][NextQuery]_vars

\* the nodes the graph is built from when it is used on its own
GraphNodes == {UserNode("u1"), UserNode("u2"), BookNode("b1"), BookNode("b2")}

\* any graph built by add_node / add_edge, and traversals of it
NextGraph ==
    \/ \E n \in GraphNodes : GraphAddNode(n)
    \/ \E a, b \in GraphNodes : GraphAddEdge(a, b)
    \/ \E start \in GraphNodes, d \in 0..MaxBfsDepth : Bfs(start, d)

SpecGraph == Init /\ [][NextGraph]_vars

\* a snapshot left by an earlier run: b1 on loan to u1, who also waits for it
SavedRun ==
    LET b1 == Book("b1", TitleOf("b1"), "Auth", GenreOf("b1"), 1, 1)
        s1 == AddUsers(AddBooks(Library, {b1}), SavedUsers)
        s2 == borrow_book(s1, "u1", "b1")
    IN _snapshot(enqueue_borrow_request(s2, "u1", "b1"))

\* the conditions the data file can be in when load_from_file is called
FileConditions ==
    {<<>>,
     <<SavedRun>>,
     <<[text |-> "{"]>>,
     <<[array |-> <<>>]>>,
     <<[SavedRun EXCEPT !.books = [array |-> <<>>]]>>,
     <<[SavedRun EXCEPT !.users = [array |-> <<>>]]>>}

InitLoad ==
    /\ books = Library.books
    /\ users = Library.users
    /\ borrow_requests = Library.borrow_requests
    /\ user_book_graph = Library.user_book_graph
    /\ file \in FileConditions
    /\ call = NoCall

\* the catalog operations and load_from_file, whatever the file holds
NextLoad ==
    \/ \E book \in SavedBooks : AddBook(book)
    \/ \E user \in SavedUsers : AddUser(user)
    \/ \E u \in SavedUserIds, b \in SavedBookIds : BorrowBook(u, b)
    \/ \E u \in SavedUserIds, b \in SavedBookIds : ReturnBook(u, b)
    \/ \E u \in SavedUserIds, b \in SavedBookIds :
          queue_len(borrow_requests) < MaxPending /\ EnqueueBorrowRequest(u, b)
    \/ LoadFromFile

SpecLoad == InitLoad /\ [][NextLoad]_vars

\* the catalog operations together with save_to_file / load_from_file
Next ==
    \/ \E book \in SavedBooks : AddBook(book)
    \/ \E b \in SavedBookIds : RemoveBook(b)
    \/ \E user \in SavedUsers : AddUser(user)
    \/ \E u \in SavedUserIds, b \in SavedBookIds : BorrowBook(u, b)
    \/ \E u \in SavedUserIds, b \in SavedBookIds : ReturnBook(u, b)
    \/ \E u \in SavedUserIds, b \in SavedBookIds :
          queue_len(borrow_requests) < MaxPending /\ EnqueueBorrowRequest(u, b)
    \/ ProcessNextBorrow
    \/ SaveToFile
    \/ LoadFromFile

Spec == Init /\ [][Next]_vars

\* who borrows what while the catalog changes: u1 reads b1, u2 reads both
RecommendLoans == {<<"u1", "b1">>, <<"u2", "b1">>, <<"u2", "b2">>}

\* the catalog the recommendations are asked of while it is built and torn
\* down: a title is added (again) when it is not there, with one copy
NextRecommend ==
    \/ \E book \in RoundTripBooks :
          book.item_id \notin DOMAIN books /\ AddBook(book)
    \/ \E b \in BookIds : RemoveBook(b)
    \/ \E user \in NewUsers : AddUser(user)
    \/ \E loan \in RecommendLoans : BorrowBook(loan[1], loan[2])
    \/ \E loan \in RecommendLoans : ReturnBook(loan[1], loan[2])
    \/ queue_len(borrow_requests) < MaxPending /\ EnqueueBorrowRequest("u2", "b1")
    \/ \E u \in UserIds, k \in {1, MaxResults} : Recommend(u, k)

SpecRecommend == Init /\ [][NextRecommend]_vars

\* b1 with every copy on the shelf and both users: nobody holds a book
InitHoldings ==
    LET self == AddUsers(AddBooks(Library,
                    {Book("b1", TitleOf("b1"), "Auth", GenreOf("b1"),
                          MaxCopies, MaxCopies)}),
                    NewUsers)
    IN /\ books = self.books
       /\ users = self.users
       /\ borrow_requests = self.borrow_requests
       /\ user_book_graph = self.user_book_graph
       /\ file = <<>>
       /\ call = NoCall

SpecHoldings == InitHoldings /\ [][NextBorrow]_vars

\* a new queue, no call made yet
InitQueue ==
    /\ books = Library.books
    /\ users = Library.users
    /\ borrow_requests = LinkedListQueue
    /\ user_book_graph = Library.user_book_graph
    /\ file = <<>>
    /\ call = [op |-> "-", user_id |-> "-", book_id |-> "-", ret |-> <<>>,
               error |-> "-", fifo |-> <<>>, enqueues |-> 0, dequeues |-> 0]

\* any interleaving of the queue's operations
NextQueue ==
    \/ \E value \in WaitlistRequests :
          /\ call.enqueues < MaxEnqueues
          /\ queue_len(borrow_requests) < MaxQueue
          /\ QueueEnqueue(value)
    \/ QueueDequeue
    \/ QueuePeek
    \/ QueueLen
    \/ QueueAsList

SpecQueue == InitQueue /\ [][NextQueue]_vars

(* ------------------------- claim vocabulary ---------------------------- *)

State == <<books, users, borrow_requests, user_book_graph>>

Known(u, b) == u \in DOMAIN users /\ b \in DOMAIN books

\* the waitlist, oldest request first
Waitlist == _borrow_requests_as_list(Lib)

InHistory(u, b) ==
    u \in DOMAIN users /\ \E i \in DOMAIN users[u].history : users[u].history[i] = b

HasEdge(u, b) ==
    /\ BookNode(b) \in neighbors(user_book_graph, UserNode(u))
    /\ UserNode(u) \in neighbors(user_book_graph, BookNode(b))

IsPrefix(s, t) == Len(s) <= Len(t) /\ \A i \in DOMAIN s : s[i] = t[i]

\* the step is a borrow_book(u, b) call, made directly or by process_next_borrow
BorrowAttempted(u, b) ==
    /\ call'.user_id = u /\ call'.book_id = b
    /\ call'.op \in {"borrow_book", "process_next_borrow"}

(* ------------------------------- C1 ------------------------------------ *)

\* C1: in every state reachable from a catalog of valid books and users by
\* borrow_book, return_book, enqueue_borrow_request and process_next_borrow,
\* every book has 0 <= available_copies <= total_copies.
C1_CopiesInRange ==
    \A b \in DOMAIN books :
        /\ 0 <= books[b].available_copies
        /\ books[b].available_copies <= books[b].total_copies

\* a book borrowed down to zero copies by two loans, and one of them returned
C1_Witness ==
    /\ call.op = "return_book" /\ call.ret = "True"
    /\ books[call.book_id].borrow_count >= 2
    /\ books[call.book_id].available_copies = books[call.book_id].total_copies

(* ------------------------------- C2 ------------------------------------ *)

\* C2: borrow_book with an unknown user id, an unknown book id or a book with
\* available_copies = 0 returns false and changes nothing: books, users
\* (borrowed sets, histories), graph and waitlist are as before the call.
C2_FailedBorrowNoEffect ==
    [][\A u \in UserIds, b \in BookIds :
          (/\ call'.op = "borrow_book" /\ call'.user_id = u /\ call'.book_id = b
           /\ (~Known(u, b) \/ books[b].available_copies = 0))
          => (call'.ret = "False" /\ UNCHANGED State)]_vars

\* a borrow refused because every copy of a known book is out on loan
C2_Witness ==
    /\ call.op = "borrow_book" /\ call.ret = "False"
    /\ Known(call.user_id, call.book_id)
    /\ books[call.book_id].available_copies = 0
    /\ books[call.book_id].borrow_count > 0

(* ------------------------------- C3 ------------------------------------ *)

\* C3: borrow_book returns true exactly when user and book are known and
\* available_copies > 0; on success available_copies drops by 1, borrow_count
\* grows by 1, the book is in the user's borrowed set and appended to the
\* history. A book with no copy left gets one back only by a return_book.
C3_BorrowContract ==
    [][/\ \A u \in UserIds, b \in BookIds :
            BorrowAttempted(u, b) =>
              /\ call'.ret = "True" <=> (Known(u, b) /\ books[b].available_copies > 0)
              /\ call'.ret = "True" =>
                   /\ books'[b].available_copies = books[b].available_copies - 1
                   /\ books'[b].borrow_count = books[b].borrow_count + 1
                   /\ b \in users'[u].borrowed_books
                   /\ users'[u].history = Append(users[u].history, b)
       /\ \A b \in DOMAIN books :
            (books[b].available_copies = 0 /\ books'[b].available_copies > 0)
            => (call'.op = "return_book" /\ call'.book_id = b /\ call'.ret = "True")
      ]_vars

\* the last copy of a book was just borrowed
C3_Witness ==
    /\ call.op = "borrow_book" /\ call.ret = "True"
    /\ books[call.book_id].available_copies = 0
    /\ call.book_id \in users[call.user_id].borrowed_books

(* ------------------------------- C4 ------------------------------------ *)

\* C4: return_book with an unknown id, or for a book that is not in the
\* user's borrowed set, returns false and changes nothing (so repeating it
\* gives the same result).
C4_FailedReturnNoEffect ==
    [][\A u \in UserIds, b \in BookIds :
          (/\ call'.op = "return_book" /\ call'.user_id = u /\ call'.book_id = b
           /\ (~Known(u, b) \/ b \notin users[u].borrowed_books))
          => (call'.ret = "False" /\ UNCHANGED State)]_vars

\* a second return of a book the user borrowed and already gave back
C4_Witness ==
    /\ call.op = "return_book" /\ call.ret = "False"
    /\ Known(call.user_id, call.book_id)
    /\ InHistory(call.user_id, call.book_id)
    /\ call.book_id \notin users[call.user_id].borrowed_books

(* ------------------------------- C5 ------------------------------------ *)

\* C5: in every reachable state, whenever borrow_book(u, b) succeeds, a
\* return_book(u, b) right after it succeeds, brings available_copies back
\* to the value before the borrow and takes b out of u's borrowed set, while
\* the history keeps the new entry and borrow_count its increment.
C5_BorrowThenReturn ==
    \A u \in UserIds, b \in BookIds :
        borrow_book_ret(Lib, u, b) = "True" =>
            LET s1 == borrow_book(Lib, u, b)
                s2 == return_book(s1, u, b)
            IN /\ return_book_ret(s1, u, b) = "True"
               /\ s2.books[b].available_copies = books[b].available_copies
               /\ b \notin s2.users[u].borrowed_books
               /\ s2.users[u].history = Append(users[u].history, b)
               /\ s2.books[b].borrow_count = books[b].borrow_count + 1

\* a loan just returned: the book is back, the history still ends with it
C5_Witness ==
    /\ call.op = "return_book" /\ call.ret = "True"
    /\ call.book_id \notin users[call.user_id].borrowed_books
    /\ Len(users[call.user_id].history) > 0
    /\ users[call.user_id].history[Len(users[call.user_id].history)] = call.book_id
    /\ books[call.book_id].borrow_count > 0
    /\ borrow_book_ret(Lib, call.user_id, call.book_id) = "True"

(* ------------------------------- C6 ------------------------------------ *)

\* C6: waitlist requests are attempted in strict FIFO order: each
\* enqueue_borrow_request puts its request behind all queued ones, and each
\* process_next_borrow attempts borrow_book for the oldest queued request,
\* so no request is attempted before one enqueued earlier.
C6_FifoOrder ==
    [][LET old == Waitlist
           new == Waitlist'
       IN CASE call'.op = "enqueue_borrow_request" ->
                 new = Append(old, <<call'.user_id, call'.book_id>>)
            [] call'.op = "process_next_borrow" /\ old # <<>> ->
                 /\ <<call'.user_id, call'.book_id>> = Head(old)
                 /\ call'.ret = borrow_book_ret(Lib, Head(old)[1], Head(old)[2])
                 /\ Len(new) = Len(old) - 1
                 /\ \A i \in DOMAIN new : new[i] = old[i + 1]
            [] OTHER -> new = old
      ]_vars

\* three different requests were queued and the oldest has just been attempted
C6_Witness ==
    /\ call.op = "process_next_borrow" /\ call.user_id # "-"
    /\ Len(Waitlist) = 2
    /\ Waitlist[1] # Waitlist[2]
    /\ <<call.user_id, call.book_id>> \notin {Waitlist[1], Waitlist[2]}

(* ------------------------------- C7 ------------------------------------ *)

\* C7: process_next_borrow on a non-empty waitlist removes exactly the head
\* request, whether the borrow succeeds or fails: a failed request is not
\* re-queued, the others keep their order, and as many calls as there are
\* queued requests empty the waitlist.
RECURSIVE Drain(_, _)
Drain(self, n) == IF n = 0 THEN self ELSE Drain(process_next_borrow(self), n - 1)

C7_ProcessDropsHead ==
    /\ [][(call'.op = "process_next_borrow" /\ Waitlist # <<>>) =>
            /\ Waitlist' = Tail(Waitlist)
            /\ queue_len(borrow_requests') = queue_len(borrow_requests) - 1
         ]_vars
    /\ [](/\ queue_len(borrow_requests) = Len(Waitlist)
          /\ LET end == Drain(Lib, Len(Waitlist))
             IN /\ _borrow_requests_as_list(end) = <<>>
                /\ ~queue_bool(end.borrow_requests))

\* a request failed (the book has no copy left) and is gone from the waitlist,
\* while a later request is still queued
C7_Witness ==
    /\ call.op = "process_next_borrow" /\ call.ret = "False"
    /\ Known(call.user_id, call.book_id)
    /\ Len(Waitlist) >= 1
    /\ \A i \in DOMAIN Waitlist : Waitlist[i] # <<call.user_id, call.book_id>>

(* ------------------------------- C8 ------------------------------------ *)

\* C8: return_book never raises: in every state reachable from the empty
\* catalog through add_book, remove_book, add_user, borrow_book, return_book,
\* enqueue_borrow_request and process_next_borrow it returns a boolean.
C8_ReturnNeverRaises ==
    call.op = "return_book" => call.ret \in {"True", "False"}

(* ------------------------------- C9 ------------------------------------ *)

\* C9 (as stated): in every reachable state, also after save / load, the
\* graph has the edge user:u - book:b iff b occurs in u's history.
C9_EdgeIffHistory ==
    \A u \in UserIds, b \in BookIds : HasEdge(u, b) <=> InHistory(u, b)

\* C9 (amended): an edge user:u - book:b exists only if b occurs in u's
\* history; every operation other than load_from_file keeps the edge of
\* every history entry; a successful load_from_file leaves exactly the edges
\* of the history entries whose book is in the loaded catalog.
C9_EdgesFollowHistory ==
    /\ [](\A u \in UserIds, b \in BookIds : HasEdge(u, b) => InHistory(u, b))
    /\ [][\A u \in UserIds, b \in BookIds :
            /\ call'.op # "load_from_file" =>
                 ((InHistory(u, b) => HasEdge(u, b)) =>
                  (InHistory(u, b)' => HasEdge(u, b)'))
            /\ (call'.op = "load_from_file" /\ call'.ret = "True") =>
                 (HasEdge(u, b)' <=> (InHistory(u, b)' /\ b \in DOMAIN books'))
         ]_vars

\* a catalog loaded from a snapshot taken after the borrowed book was removed:
\* the history names the book, the graph has no edge for it
C9_Witness ==
    /\ call.op = "load_from_file" /\ call.ret = "True"
    /\ \E u \in UserIds, b \in BookIds :
         InHistory(u, b) /\ ~HasEdge(u, b) /\ b \notin DOMAIN books

(* ------------------------------- C10 ----------------------------------- *)

\* C10: in every reachable state each user's borrowed_books is a subset of
\* the ids in the user's history, and every operation other than load leaves
\* each user's previous history as a prefix of the new one.
C10_HistoryAppendOnly ==
    /\ [](\A u \in DOMAIN users :
            users[u].borrowed_books \subseteq ToSet(users[u].history))
    /\ [][call'.op # "load_from_file" =>
            \A u \in DOMAIN users :
               /\ u \in DOMAIN users'
               /\ IsPrefix(users[u].history, users'[u].history)
         ]_vars

\* a borrowed book was removed from the catalog: the user still holds it and
\* the history still names it
C10_Witness ==
    /\ call.op = "remove_book" /\ call.ret = "True"
    /\ \E u \in DOMAIN users :
         /\ call.book_id \in users[u].borrowed_books
         /\ InHistory(u, call.book_id)

(* ------------------------------- C11 ----------------------------------- *)

\* C11: in every state reachable by add_book (merge included), remove_book,
\* update_book with any updates it accepts, borrow_book, return_book and
\* process_next_borrow, every book has 0 <= available_copies <= total_copies.
C11_CopiesInRangeAllMutations ==
    \A b \in BookIds :
        b \in DOMAIN books =>
            (books[b].available_copies \in 0..books[b].total_copies)

(* ------------------------------- C12 ----------------------------------- *)

HasEdgeIn(adj, u, b) ==
    /\ BookNode(b) \in neighbors(adj, UserNode(u))
    /\ UserNode(u) \in neighbors(adj, BookNode(b))

\* C12: for every catalog reachable through add_book, add_user, borrow_book,
\* return_book and enqueue_borrow_request (and save / load), loading the
\* snapshot of the catalog yields equal book records (all seven fields),
\* equal user records (name, interests, borrowed set, history order), the
\* same waitlist in the same order, and a graph whose user-book edges are
\* exactly the history pairs whose book is in the loaded catalog; and a
\* load_from_file step leaves a catalog whose snapshot is the file's.
C12_SaveLoadRoundTrip ==
    /\ [](LET loaded == load_from_file(Library, <<_snapshot(Lib)>>)
          IN /\ loaded.books = books
             /\ loaded.users = users
             /\ _borrow_requests_as_list(loaded) = Waitlist
             /\ queue_len(loaded.borrow_requests) = Len(Waitlist)
             /\ \A u \in UserIds, b \in BookIds :
                   HasEdgeIn(loaded.user_book_graph, u, b)
                   <=> (InHistory(u, b) /\ b \in DOMAIN loaded.books))
    /\ [][(call'.op = "load_from_file" /\ call'.ret = "True") =>
            _snapshot(Lib)' = file[1]]_vars

\* a catalog just loaded from its file: u1 holds both books, borrowed in the
\* order b2, b1, and two different requests wait
C12_Witness ==
    /\ call.op = "load_from_file" /\ call.ret = "True"
    /\ "u1" \in DOMAIN users
    /\ users["u1"].history = <<"b2", "b1">>
    /\ users["u1"].borrowed_books = {"b1", "b2"}
    /\ Len(Waitlist) = 2 /\ Waitlist[1] # Waitlist[2]
    /\ file = <<_snapshot(Lib)>>

(* ------------------------------- C13 ----------------------------------- *)

\* C13: whatever the file holds (absent, not parseable, parseable but not the
\* envelope structure), load_from_file either succeeds or leaves books,
\* users, waitlist and graph exactly as they were before the call.
C13_LoadAtomic ==
    [][call'.op = "load_from_file" =>
          (call'.ret = "True" \/ UNCHANGED State)]_vars

(* ------------------------ recommendation claims ------------------------ *)

\* the nodes within d hops of start
RECURSIVE Ball(_, _, _)
Ball(adj, start, d) ==
    IF start \notin DOMAIN adj THEN {}
    ELSE IF d = 0 THEN {start}
    ELSE LET inner == Ball(adj, start, d - 1)
         IN inner \cup UNION {neighbors(adj, n) : n \in inner}

\* the least number of hops from start to a node within reach
Dist(adj, start, n) ==
    CHOOSE d \in 0..Cardinality(DOMAIN adj) :
        /\ n \in Ball(adj, start, d)
        /\ d > 0 => n \notin Ball(adj, start, d - 1)

\* the ids of the book nodes within 3 hops of user u
ReachableBooks(u) ==
    {n[2] : n \in {m \in Ball(user_book_graph, UserNode(u), 3) : m[1] = "book"}}

\* the catalog books within 3 hops of u that u does not hold
GraphCandidateIds(u) ==
    {b \in ReachableBooks(u) :
        b \in DOMAIN books /\ b \notin users[u].borrowed_books}

\* a recommend call for a registered user has just returned
Recommended(u) ==
    /\ call.op = "recommend_for_user" /\ call.user_id = u
    /\ u \in DOMAIN users

\* min(borrow_count / 10, 1.0), in sixtieths
ClaimPopularity(b) ==
    IF books[b].borrow_count >= 10 THEN 60 ELSE 6 * books[b].borrow_count

(* ------------------------------- C14 ----------------------------------- *)

\* C14: recommend(user_id, k) returns an empty result for every k <= 0, and
\* at most k pairs for k > 0.
C14_NonPositiveKEmpty ==
    call.op = "recommend_for_user" =>
        /\ call.k <= 0 => call.ret = <<>>
        /\ call.k > 0 => Len(call.ret) <= call.k

(* ------------------------------- C15 ----------------------------------- *)

\* 0.7 if the genre is among the interests, plus the popularity term
ClaimFallbackScore(u, b) ==
    (IF books[b].genre \in users[u].interests THEN 42 ELSE 0) + ClaimPopularity(b)

\* C15: when no catalog book within 3 hops of the user is free of the user's
\* borrowed set, recommend returns (for k not below the catalog size) exactly
\* the books the user does not hold whose score 0.7 (genre among interests)
\* + min(borrow_count/10, 1.0) is positive, each with that score: b1 (tech,
\* never borrowed) scores 0.7 for u1 (interested in tech, no history), and a
\* non-matching book never borrowed is not returned.
C15_FallbackOverCatalog ==
    \A u \in QueryUserIds :
        (/\ Recommended(u) /\ call.k >= Cardinality(DOMAIN books)
         /\ GraphCandidateIds(u) = {})
        => /\ ToSet(call.ret) =
                {<<books[b], ClaimFallbackScore(u, b)>> :
                    b \in {x \in DOMAIN books :
                              /\ x \notin users[u].borrowed_books
                              /\ ClaimFallbackScore(u, x) > 0}}
           /\ Len(call.ret) = Cardinality(ToSet(call.ret))
           /\ (/\ u = "u1" /\ users[u].history = <<>> /\ "b1" \in DOMAIN books
               /\ books["b1"].borrow_count = 0)
              => <<books["b1"], 42>> \in ToSet(call.ret)
           /\ \A b \in DOMAIN books :
                 (books[b].borrow_count = 0 /\ books[b].genre \notin users[u].interests)
                 => \A i \in DOMAIN call.ret : call.ret[i][1].item_id # b

\* u1 has no history: b1 comes back with score 0.7, and b2 (fiction, never
\* borrowed) does not come back
C15_Witness ==
    /\ Recommended("u1") /\ call.k = MaxResults
    /\ users["u1"].history = <<>>
    /\ DOMAIN books = BookIds
    /\ books["b2"].borrow_count = 0
    /\ call.ret = <<<<books["b1"], 42>>>>

(* ------------------------------- C16 ----------------------------------- *)

\* 1/(1+d) + 0.5 (genre among interests) + the popularity term
ClaimGraphScore(u, b) ==
    (60 \div (1 + Dist(user_book_graph, UserNode(u), BookNode(b))))
    + (IF books[b].genre \in users[u].interests THEN 30 ELSE 0)
    + ClaimPopularity(b)

\* C16: when some catalog book within 3 hops of the user is not in the
\* user's borrowed set, recommend returns (for k not below the catalog size)
\* exactly those books, each scored 1/(1+d) + 0.5 (genre among interests)
\* + min(borrow_count/10, 1.0) with d its least hop distance from the user
\* node; and no call returns a book the user currently holds.
C16_GraphCandidates ==
    \A u \in QueryUserIds :
        Recommended(u) =>
            /\ (call.k >= Cardinality(DOMAIN books) /\ GraphCandidateIds(u) # {})
               => ToSet(call.ret) =
                    {<<books[b], ClaimGraphScore(u, b)>> : b \in GraphCandidateIds(u)}
            /\ \A i \in DOMAIN call.ret :
                 call.ret[i][1].item_id \notin users[u].borrowed_books

(* ------------------------------- C17 ----------------------------------- *)

\* C17: the list recommend returns is ordered by descending score, equal
\* scores by descending borrow_count, then by ascending lower-cased title;
\* it is a prefix of the ranking of all candidates (no higher-ranked
\* candidate is left out), of length min(k, number of candidates) for k > 0.
C17_RankedPrefix ==
    \A u \in QueryUserIds :
        Recommended(u) =>
            /\ \A i \in 1..(Len(call.ret) - 1) :
                 LET x == call.ret[i]
                     y == call.ret[i + 1]
                 IN /\ x[2] >= y[2]
                    /\ x[2] = y[2] => x[1].borrow_count >= y[1].borrow_count
                    /\ (x[2] = y[2] /\ x[1].borrow_count = y[1].borrow_count)
                       => StrRank(lower(x[1].title)) <= StrRank(lower(y[1].title))
            /\ \E traversal \in bfs(user_book_graph, UserNode(u), RecommendDepth) :
                 LET all == recommend_for_user(Lib, u, Cardinality(DOMAIN books),
                                               traversal)
                 IN /\ IsPrefix(call.ret, all)
                    /\ call.k > 0 =>
                         Len(call.ret) = (IF call.k < Len(all) THEN call.k ELSE Len(all))
                    /\ \A i \in DOMAIN all :
                         i > Len(call.ret) =>
                           \A j \in DOMAIN call.ret : call.ret[j][2] >= all[i][2]

\* two books with the same score came back, the more borrowed one first
C17_Witness ==
    /\ call.op = "recommend_for_user" /\ Len(call.ret) = 2
    /\ call.ret[1][2] = call.ret[2][2]
    /\ call.ret[1][1].borrow_count > call.ret[2][1].borrow_count

(* ------------------------------- C18 ----------------------------------- *)

\* C18: top_k_books(k) returns at most k books and at least min(k, number of
\* books), sorted by non-increasing borrow_count; no book left out has a
\* strictly larger borrow_count than a returned one; and for k <= 0 the
\* result is empty.
C18_TopK ==
    call.op = "top_k_books" =>
        LET n == Cardinality(DOMAIN books)
            ret == call.ret
        IN /\ call.k <= 0 => ret = <<>>
           /\ call.k > 0 => Len(ret) <= call.k
           /\ Len(ret) >= (IF call.k < n THEN call.k ELSE n)
           /\ \A i \in DOMAIN ret : ret[i] = books[ret[i].item_id]
           /\ \A i, j \in DOMAIN ret : ret[i] = ret[j] => i = j
           /\ \A i \in 1..(Len(ret) - 1) :
                 ret[i].borrow_count >= ret[i + 1].borrow_count
           /\ \A b \in DOMAIN books :
                 (\A i \in DOMAIN ret : ret[i].item_id # b)
                 => \A i \in DOMAIN ret : books[b].borrow_count <= ret[i].borrow_count

\* of two books the more borrowed one is the top 1
C18_Witness ==
    /\ call.op = "top_k_books" /\ call.k = 1 /\ Len(call.ret) = 1
    /\ \E b \in DOMAIN books : books[b].borrow_count < call.ret[1].borrow_count
    /\ call.ret[1].borrow_count \notin Popularity

(* ------------------------------- C19 ----------------------------------- *)

\* C19: for every graph, start node and max_depth >= 0, bfs returns an empty
\* list if start is absent; otherwise its first pair is (start, 0), it holds
\* exactly the nodes whose shortest-path distance from start is at most
\* max_depth, each once, paired with that distance, and the depths along the
\* list never decrease.
C19_BfsShortestPaths ==
    call.op = "bfs" =>
        LET ret == call.ret
            adj == user_book_graph
        IN IF call.start \notin DOMAIN adj THEN ret = <<>>
           ELSE /\ ret # <<>> /\ ret[1] = <<call.start, 0>>
                /\ {ret[i][1] : i \in DOMAIN ret} = Ball(adj, call.start, call.max_depth)
                /\ \A i, j \in DOMAIN ret : ret[i][1] = ret[j][1] => i = j
                /\ \A i \in DOMAIN ret : ret[i][2] = Dist(adj, call.start, ret[i][1])
                /\ \A i \in 1..(Len(ret) - 1) : ret[i][2] <= ret[i + 1][2]

\* a traversal cut at depth 2 of a graph that has a node three hops away
C19_Witness ==
    /\ call.op = "bfs" /\ call.max_depth = 2
    /\ \E i \in DOMAIN call.ret : call.ret[i][2] = 2
    /\ \E n \in DOMAIN user_book_graph :
         /\ n \in Ball(user_book_graph, call.start, 3)
         /\ \A i \in DOMAIN call.ret : call.ret[i][1] # n

(* ------------------------------- C20 ----------------------------------- *)

\* C20: the borrow-request queue changes only in enqueue_borrow_request,
\* process_next_borrow and load_from_file; borrow_book and return_book,
\* successful or not, leave it as it is: a failed borrow enqueues nothing
\* and a successful return processes nothing.
C20_WaitlistFrame ==
    [][/\ call'.op \in {"borrow_book", "return_book"} =>
            borrow_requests' = borrow_requests
       /\ borrow_requests' # borrow_requests =>
            call'.op \in {"enqueue_borrow_request", "process_next_borrow",
                          "load_from_file"}
      ]_vars

\* a copy came back while a request for that very book was waiting, and the
\* request is still queued
C20_Witness ==
    /\ call.op = "return_book" /\ call.ret = "True"
    /\ Waitlist # <<>>
    /\ Head(Waitlist)[2] = call.book_id
    /\ can_borrow(books[call.book_id])

(* ------------------------------- C21 ----------------------------------- *)

\* C21: recommend(user_id, k) is read-only: for every catalog state, user id
\* (known or unknown) and k, the books, users, waitlist and interaction graph
\* after the call are identical to those before it.
C21_RecommendReadOnly ==
    [][call'.op = "recommend_for_user" =>
          /\ books' = books
          /\ users' = users
          /\ borrow_requests' = borrow_requests
          /\ user_book_graph' = user_book_graph]_vars

\* a recommendation was returned while a request is waiting and a removed
\* book is still named by a borrowed set
C21_Witness ==
    /\ call.op = "recommend_for_user"
    /\ call.ret # <<>>
    /\ Waitlist # <<>>
    /\ \E u \in DOMAIN users : users[u].borrowed_books \ DOMAIN books # {}

(* ------------------------------- C22 ----------------------------------- *)

\* C22: add_book with an id already in the catalog adds the new book's
\* total_copies and available_copies onto the existing record and changes
\* nothing else (title, author, genre, borrow_count, users, graph, waitlist
\* and the number of books stay); add_book with a new id inserts the record
\* and registers the node book:{id} in the graph.
C22_AddBookMerges ==
    \A book \in CatalogBooks :
        LET id == book.item_id
            after == add_book(Lib, book)
        IN /\ after.users = users
           /\ after.borrow_requests = borrow_requests
           /\ \A b \in DOMAIN books \ {id} :
                 b \in DOMAIN after.books /\ after.books[b] = books[b]
           /\ IF id \in DOMAIN books
              THEN /\ DOMAIN after.books = DOMAIN books
                   /\ after.books[id].total_copies
                         = books[id].total_copies + book.total_copies
                   /\ after.books[id].available_copies
                         = books[id].available_copies + book.available_copies
                   /\ after.books[id].item_id = books[id].item_id
                   /\ after.books[id].title = books[id].title
                   /\ after.books[id].author = books[id].author
                   /\ after.books[id].genre = books[id].genre
                   /\ after.books[id].borrow_count = books[id].borrow_count
                   /\ after.user_book_graph = user_book_graph
              ELSE /\ DOMAIN after.books = DOMAIN books \cup {id}
                   /\ after.books[id] = book
                   /\ BookNode(id) \in DOMAIN after.user_book_graph

\* copies were added onto a record that had been borrowed and is still held
C22_Witness ==
    /\ call.op = "add_book"
    /\ call.book_id \in DOMAIN books
    /\ books[call.book_id].borrow_count >= 1
    /\ books[call.book_id].total_copies = MaxCopies
    /\ \E u \in DOMAIN users : call.book_id \in users[u].borrowed_books

(* ------------------------------- C23 ----------------------------------- *)

\* C23: remove_book(id) returns true exactly when the id was in the catalog,
\* afterwards the id is not in the book map, and every user's borrowed set
\* and history, every graph node and edge, the waitlist and all other books
\* are unchanged; removing an absent id changes nothing.
C23_RemoveBookNoCascade ==
    [][call'.op = "remove_book" =>
          LET id == call'.book_id
          IN /\ call'.ret = (IF id \in DOMAIN books THEN "True" ELSE "False")
             /\ DOMAIN books' = DOMAIN books \ {id}
             /\ \A b \in DOMAIN books' : books'[b] = books[b]
             /\ users' = users
             /\ user_book_graph' = user_book_graph
             /\ borrow_requests' = borrow_requests
             /\ (id \notin DOMAIN books => books' = books)]_vars

\* a held book with a graph edge was removed while the other title stays
\* and a request waits
C23_Witness ==
    /\ call.op = "remove_book" /\ call.ret = "True"
    /\ call.book_id \notin DOMAIN books
    /\ DOMAIN books # {}
    /\ Waitlist # <<>>
    /\ \E u \in DOMAIN users :
          /\ call.book_id \in users[u].borrowed_books
          /\ HasEdge(u, call.book_id)

(* ------------------------------- C24 ----------------------------------- *)

\* C24: the linked-list queue behaves as a FIFO sequence under any
\* interleaving of enqueue, dequeue, peek and size: dequeue returns and
\* removes the oldest item, peek returns it without changing the queue, size
\* equals enqueues minus successful dequeues, the head-to-tail iteration
\* yields the items in FIFO order without altering the queue, and dequeue or
\* peek on an empty queue fails leaving the queue empty and usable.
C24_QueueRefinesFifo ==
    /\ [](/\ WalkFrom(borrow_requests, borrow_requests._head) = call.fifo
          /\ queue_len(borrow_requests) = Len(call.fifo)
          /\ queue_len(borrow_requests) = call.enqueues - call.dequeues)
    /\ [][/\ call'.op = "enqueue" =>
                /\ call'.error = "-"
                /\ queue_len(borrow_requests') = queue_len(borrow_requests) + 1
          /\ call'.op = "dequeue" =>
                IF call.fifo = <<>>
                THEN /\ call'.error = "IndexError"
                     /\ borrow_requests' = borrow_requests
                     /\ queue_len(borrow_requests') = 0
                ELSE /\ call'.error = "-"
                     /\ call'.ret = <<Head(call.fifo)>>
                     /\ queue_len(borrow_requests') = queue_len(borrow_requests) - 1
          /\ call'.op = "peek" =>
                /\ borrow_requests' = borrow_requests
                /\ IF call.fifo = <<>>
                   THEN call'.error = "IndexError"
                   ELSE call'.error = "-" /\ call'.ret = <<Head(call.fifo)>>
          /\ call'.op = "len" =>
                /\ borrow_requests' = borrow_requests
                /\ call'.ret = <<Len(call.fifo)>>
          /\ call'.op = "as_list" =>
                /\ borrow_requests' = borrow_requests
                /\ call'.ret = call.fifo]_vars

\* dequeue failed on a queue that was used and emptied, after which the
\* queue holds nothing
C24_Witness ==
    /\ call.op = "dequeue" /\ call.error = "IndexError"
    /\ call.enqueues >= 2
    /\ call.dequeues = call.enqueues
    /\ borrow_requests = LinkedListQueue

(* ------------------------------- C25 ----------------------------------- *)

\* C25: process_next_borrow never causes a queue underflow: on an empty
\* waitlist it returns false without raising and leaves books, users, graph
\* and waitlist unchanged, so the IndexError of dequeue is unreachable
\* through the catalog's operations.
C25_NoUnderflow ==
    [][call'.op = "process_next_borrow" =>
          /\ call'.ret # "IndexError"
          /\ (Waitlist = <<>> => call'.ret = "False" /\ State' = State)]_vars

\* process_next_borrow answered false on a waitlist emptied by an earlier
\* fulfilled request
C25_Witness ==
    /\ call.op = "process_next_borrow" /\ call.ret = "False"
    /\ call.user_id = "-"
    /\ Waitlist = <<>>
    /\ \E u \in DOMAIN users : users[u].history # <<>>

(* ------------------------------- C26 ----------------------------------- *)

\* C26: after any sequence of add_node and add_edge calls the graph is
\* symmetric and loop-free: b is in neighbors(a) iff a is in neighbors(b),
\* no node is its own neighbour, add_edge(a, a) changes nothing (node a is
\* not even created), every endpoint of an edge is a node, and repeating
\* add_node or add_edge with the same arguments leaves the graph unchanged.
C26_GraphSymmetricLoopFree ==
    LET g == user_book_graph
    IN /\ \A a, b \in GraphNodes :
             b \in neighbors(g, a) <=> a \in neighbors(g, b)
       /\ \A a \in GraphNodes : a \notin neighbors(g, a)
       /\ \A a \in DOMAIN g : g[a] \subseteq DOMAIN g
       /\ \A a \in GraphNodes : add_edge(g, a, a) = g
       /\ \A n \in GraphNodes : add_node(add_node(g, n), n) = add_node(g, n)
       /\ \A a, b \in GraphNodes :
             add_edge(add_edge(g, a, b), a, b) = add_edge(g, a, b)

\* an edge was added, one node has two neighbours and one node is not in
\* the graph yet
C26_Witness ==
    /\ call.op = "add_edge"
    /\ \E a \in DOMAIN user_book_graph : Cardinality(user_book_graph[a]) >= 2
    /\ GraphNodes \ DOMAIN user_book_graph # {}

(* ------------------------------- C27 ----------------------------------- *)

\* the users whose borrowed set contains the book id
Holders(b) == {u \in DOMAIN users : b \in users[u].borrowed_books}

\* C27: copy conservation: in every state reached from a catalog where
\* nobody holds a book by borrow_book, return_book and process_next_borrow
\* (the same user borrowing a held book again included), for every book
\* total_copies - available_copies is the number of users whose borrowed
\* set contains its id.
C27_CopyConservation ==
    \A b \in DOMAIN books :
        books[b].total_copies - books[b].available_copies
            = Cardinality(Holders(b))

(* ------------------------------- C28 ----------------------------------- *)

\* the number of occurrences of the book id in all users' histories
Occurrences(b) ==
    Cardinality({p \in UNION {{<<u, i>> : i \in DOMAIN users[u].history} :
                                 u \in DOMAIN users} :
                    users[p[1]].history[p[2]] = b})

\* C28: popularity bookkeeping: in every state reached from an empty catalog
\* by add_book, remove_book, add_user, borrow_book, return_book and
\* process_next_borrow, each catalog book's borrow_count equals the number
\* of occurrences of its id in all users' histories, and borrow_count never
\* decreases across any operation.
C28_PopularityBookkeeping ==
    /\ [](\A b \in DOMAIN books : books[b].borrow_count = Occurrences(b))
    /\ [][\A b \in DOMAIN books \cap DOMAIN books' :
             books'[b].borrow_count >= books[b].borrow_count]_vars

(* ------------------------------- C29 ----------------------------------- *)

\* C29: recommend tolerates dangling references: in every state reached
\* through add_book, remove_book, add_user, borrow_book and return_book,
\* recommend(user_id, k) completes without raising and every book it returns
\* is a record currently in the book map; for an unknown user id the result
\* is empty.
C29_RecommendToleratesDangling ==
    call.op = "recommend_for_user" =>
        /\ call.error = "-"
        /\ \A i \in DOMAIN call.ret :
              LET book == call.ret[i][1]
              IN /\ book.item_id \in DOMAIN books
                 /\ books[book.item_id] = book
        /\ (call.user_id \notin DOMAIN users => call.ret = <<>>)

\* a recommendation came back for a user next to a removed book that the
\* user no longer holds
C29_Witness ==
    /\ call.op = "recommend_for_user"
    /\ call.ret # <<>>
    /\ call.user_id \in DOMAIN users
    /\ \E b \in BookIds :
          /\ BookNode(b) \in neighbors(user_book_graph, UserNode(call.user_id))
          /\ b \notin DOMAIN books
          /\ b \notin users[call.user_id].borrowed_books

====
